---- MODULE Spec2Model ----
(***************************************************************************)
(* Resume analyzer: the resume parser (resume_parser.py) and the analysis  *)
(* chain (langflow_chain.py).                                              *)
(*                                                                         *)
(* A Python str is a sequence of characters, each character a one-letter   *)
(* TLA+ string; None is the one-element sequence NoneStr, which no str     *)
(* equals.                                                                 *)
(***************************************************************************)
EXTENDS Integers, Sequences, FiniteSets, TLC

VARIABLES
    text,         \* SpecExtract: the decoded resume text an extractor is applied to
    op,           \* SpecExtract: the extractor that was called, "idle" before the call
    arg,          \* SpecExtract: the alias list passed to _extract_section
    ret,          \* SpecExtract: what the call returned
    parser,       \* the ResumeParser instance: its four pattern attributes
    last,         \* Spec: the latest parse call, its document and its outcome
    kept,         \* Spec: an earlier parse call, remembered to compare with later ones
    resume,       \* SpecAnalyze: the ResumeData handed to the chain
    llm,          \* SpecAnalyze: the outcome of the language-model call
    formatted,    \* SpecAnalyze: what _format_resume_data returned
    analysis,     \* SpecAnalyze: what analyze_resume returned
    session,      \* SpecApp: st.session_state, its five fields
    written,      \* SpecApp: for each session field, the run of main that last set it
    run           \* SpecApp: the latest run of main: its number, its upload, how it ended

extractVars == <<text, op, arg, ret>>
parseVars == <<last, kept>>
analyzeVars == <<resume, llm, formatted, analysis>>
appVars == <<session, written, run>>
vars == <<text, op, arg, ret, parser, last, kept, resume, llm, formatted, analysis,
          session, written, run>>

\* ------------------------------------------------------------------ bounds

\* the longest resume text, in lines
MaxLines == 3

\* ------------------------------------------------------------- characters

UpperSeq == <<"A", "B", "C", "D", "E", "F", "G", "H", "I", "J", "K", "L", "M",
              "N", "O", "P", "Q", "R", "S", "T", "U", "V", "W", "X", "Y", "Z">>
LowerSeq == <<"a", "b", "c", "d", "e", "f", "g", "h", "i", "j", "k", "l", "m",
              "n", "o", "p", "q", "r", "s", "t", "u", "v", "w", "x", "y", "z">>
Upper == {UpperSeq[i] : i \in 1..26}
Lower == {LowerSeq[i] : i \in 1..26}
Digit == {"0", "1", "2", "3", "4", "5", "6", "7", "8", "9"}
Whitespace == {" ", "\t", "\n"}
\* U+2022, the bullet character of the skills pattern
Bullet == "U+2022"
NoneStr == <<"None">>

\* ------------------------------------------------------- Python str methods

\* str.strip()
RECURSIVE lstrip(_)
lstrip(s) ==
    IF s # <<>> /\ Head(s) \in Whitespace THEN lstrip(Tail(s)) ELSE s

RECURSIVE rstrip(_)
rstrip(s) ==
    IF s # <<>> /\ s[Len(s)] \in Whitespace THEN rstrip(SubSeq(s, 1, Len(s) - 1)) ELSE s

strip(s) == rstrip(lstrip(s))

\* the smallest element of a non-empty set of numbers
Least(S) == CHOOSE x \in S : \A y \in S : x <= y

\* the pieces of s between the characters that are in seps: never an empty list
RECURSIVE split_any(_, _)
split_any(s, seps) ==
    LET found == {i \in 1..Len(s) : s[i] \in seps}
    IN IF found = {} THEN <<s>>
       ELSE <<SubSeq(s, 1, Least(found) - 1)>>
            \o split_any(SubSeq(s, Least(found) + 1, Len(s)), seps)

\* str.split(sep) for a one-character sep
split(s, sep) == split_any(s, {sep})

\* s[i:].startswith(sub), for a position i of s counted from 1
StartsAt(s, i, sub) ==
    /\ i + Len(sub) - 1 <= Len(s)
    /\ \A k \in 1..Len(sub) : s[i + k - 1] = sub[k]

\* `sub in s`
Contains(sub, s) == \E i \in 1..Len(s) : StartsAt(s, i, sub)

\* str.isupper(): a cased character, and no lowercase one
isupper(s) ==
    /\ \E i \in 1..Len(s) : s[i] \in Upper
    /\ \A i \in 1..Len(s) : s[i] \notin Lower

\* str.replace(old, new) for one-character old and new
replace(s, old, new) == [i \in 1..Len(s) |-> IF s[i] = old THEN new ELSE s[i]]

\* any(x in line for x in xs)
AnyIn(xs, line) == \E k \in 1..Len(xs) : Contains(xs[k], line)

\* ----------------------------------------------------- section aliases

EducationHeaders ==
    << <<"E", "D", "U", "C", "A", "T", "I", "O", "N">>,
       <<"E", "d", "u", "c", "a", "t", "i", "o", "n">>,
       <<"A", "C", "A", "D", "E", "M", "I", "C", " ", "B", "A", "C", "K", "G", "R", "O", "U", "N", "D">> >>

ExperienceHeaders ==
    << <<"E", "X", "P", "E", "R", "I", "E", "N", "C", "E">>,
       <<"E", "x", "p", "e", "r", "i", "e", "n", "c", "e">>,
       <<"W", "O", "R", "K", " ", "E", "X", "P", "E", "R", "I", "E", "N", "C", "E">>,
       <<"E", "M", "P", "L", "O", "Y", "M", "E", "N", "T">> >>

SkillsHeaders ==
    << <<"S", "K", "I", "L", "L", "S">>,
       <<"S", "k", "i", "l", "l", "s">>,
       <<"T", "E", "C", "H", "N", "I", "C", "A", "L", " ", "S", "K", "I", "L", "L", "S">> >>

CertificationHeaders ==
    << <<"C", "E", "R", "T", "I", "F", "I", "C", "A", "T", "I", "O", "N", "S">>,
       <<"C", "e", "r", "t", "i", "f", "i", "c", "a", "t", "i", "o", "n", "s">>,
       <<"C", "E", "R", "T", "I", "F", "I", "C", "A", "T", "E", "S">> >>

DegreeKeywords ==
    << <<"B", "a", "c", "h", "e", "l", "o", "r">>,
       <<"M", "a", "s", "t", "e", "r">>,
       <<"P", "h", "D">>,
       <<"B", ".", "S", ".">>,
       <<"M", ".", "S", ".">>,
       <<"P", "h", ".", "D">> >>

\* ------------------------------------------- ResumeParser._extract_section

\* the loop over enumerate(lines); i counts from 1, so the last line is i = Len(lines)
RECURSIVE section_loop(_, _, _, _, _)
section_loop(lines, section_headers, i, in_section, section_text) ==
    IF i > Len(lines) THEN section_text
    ELSE IF AnyIn(section_headers, lines[i])
        THEN section_loop(lines, section_headers, i + 1, TRUE, section_text)
    ELSE IF /\ in_section
            /\ i < Len(lines)
            /\ isupper(lines[i + 1])
            /\ Len(strip(lines[i + 1])) > 0
        THEN section_text
    ELSE IF in_section
        THEN section_loop(lines, section_headers, i + 1, in_section,
                          section_text \o lines[i] \o <<"\n">>)
    ELSE section_loop(lines, section_headers, i + 1, in_section, section_text)

extract_section(t, section_headers) ==
    strip(section_loop(split(t, "\n"), section_headers, 1, FALSE, <<>>))

\* ----------------------------------------- ResumeParser._extract_education

\* Education(institution=..., degree=...): the other two fields keep their default
Education(institution, degree) ==
    [institution |-> institution, degree |-> degree,
     field_of_study |-> NoneStr, graduation_date |-> NoneStr]

\* the record a keyword line opens
education_of_line(line) ==
    LET parts == split(line, ",")
        degree == IF Len(parts) > 0 THEN strip(parts[1]) ELSE strip(line)
        institution == IF Len(parts) > 1 THEN strip(parts[2]) ELSE <<>>
    IN Education(institution, degree)

\* education_flush without the final `if current_education: educations.append(...)`
education_flush_dropped(current_education, educations) == educations

\* what the function returns once the loop over the section's lines is over
education_flush(current_education, educations) ==
    IF current_education # <<>> THEN educations \o current_education ELSE educations

\* the loop over the section's lines; current_education is <<>> for None, else
\* <<record>> (a model instance is always truthy)
RECURSIVE education_loop(_, _, _, _)
education_loop(lines, i, current_education, educations) ==
    IF i > Len(lines) THEN education_flush(current_education, educations)
    ELSE IF strip(lines[i]) = <<>>
        THEN education_loop(lines, i + 1, current_education, educations)
    ELSE IF AnyIn(DegreeKeywords, lines[i])
        THEN education_loop(lines, i + 1, <<education_of_line(lines[i])>>,
                            IF current_education # <<>>
                                THEN educations \o current_education
                                ELSE educations)
    ELSE education_loop(lines, i + 1, current_education, educations)

education_of_section(education_section) ==
    education_loop(split(education_section, "\n"), 1, <<>>, <<>>)

extract_education(t) ==
    LET education_section == extract_section(t, EducationHeaders)
    IN IF education_section = <<>> THEN <<>>
       ELSE education_of_section(education_section)

\* ----------------------------------- ResumeParser._extract_work_experience

MonthNames ==
    << <<"J", "a", "n">>,
       <<"F", "e", "b">>,
       <<"M", "a", "r">>,
       <<"A", "p", "r">>,
       <<"M", "a", "y">>,
       <<"J", "u", "n">>,
       <<"J", "u", "l">>,
       <<"A", "u", "g">>,
       <<"S", "e", "p">>,
       <<"O", "c", "t">>,
       <<"N", "o", "v">>,
       <<"D", "e", "c">>,
       <<"J", "a", "n", "u", "a", "r", "y">>,
       <<"F", "e", "b", "r", "u", "a", "r", "y">>,
       <<"M", "a", "r", "c", "h">>,
       <<"A", "p", "r", "i", "l">>,
       <<"M", "a", "y">>,
       <<"J", "u", "n", "e">>,
       <<"J", "u", "l", "y">>,
       <<"A", "u", "g", "u", "s", "t">>,
       <<"S", "e", "p", "t", "e", "m", "b", "e", "r">>,
       <<"O", "c", "t", "o", "b", "e", "r">>,
       <<"N", "o", "v", "e", "m", "b", "e", "r">>,
       <<"D", "e", "c", "e", "m", "b", "e", "r">> >>

UnknownCompany == <<"U", "n", "k", "n", "o", "w", "n", " ", "C", "o", "m", "p", "a", "n", "y">>
UnknownPosition == <<"U", "n", "k", "n", "o", "w", "n", " ", "P", "o", "s", "i", "t", "i", "o", "n">>

\* \w and \s of the re module
WordChar == Upper \cup Lower \cup Digit \cup {"_"}

\* the number of characters of s from position i on that are in class
RECURSIVE run_length(_, _, _)
run_length(s, i, class) ==
    IF i <= Len(s) /\ s[i] \in class THEN 1 + run_length(s, i + 1, class) ELSE 0

\* \b(Jan|...|December)\s+\d{4}\b matches with the month name starting at i
date_at(line, i) ==
    /\ i = 1 \/ line[i - 1] \notin WordChar
    /\ \E k \in 1..Len(MonthNames) :
        LET m == MonthNames[k]
            j == i + Len(m)
            w == run_length(line, j, Whitespace)
        IN /\ StartsAt(line, i, m)
           /\ w >= 1
           /\ run_length(line, j + w, Digit) >= 4
           /\ j + w + 4 > Len(line) \/ line[j + w + 4] \notin WordChar

\* re.search(date pattern, line) finds a match
date_search(line) == \E i \in 1..Len(line) : date_at(line, i)

\* re.search(r'([class]+)', line): group(1), the leftmost longest run, or NoneStr
first_run(line, class) ==
    IF \E i \in 1..Len(line) : line[i] \in class
    THEN LET i == CHOOSE p \in 1..Len(line) :
                      /\ line[p] \in class
                      /\ \A q \in 1..(p - 1) : line[q] \notin class
         IN SubSeq(line, i, i + run_length(line, i, class) - 1)
    ELSE NoneStr

WorkExperience(company, position) ==
    [company |-> company, position |-> position,
     start_date |-> NoneStr, end_date |-> NoneStr, description |-> NoneStr]

\* the record a marker line opens
experience_of_line(line) ==
    LET company_match == first_run(line, Upper \cup Lower \cup Digit \cup Whitespace)
        company == IF company_match # NoneStr THEN strip(company_match) ELSE UnknownCompany
        position_match == first_run(line, Upper \cup Lower \cup Whitespace)
        position == IF position_match # NoneStr THEN strip(position_match) ELSE UnknownPosition
    IN WorkExperience(company, position)

RECURSIVE experience_loop(_, _, _, _)
experience_loop(lines, i, current_experience, experiences) ==
    IF i > Len(lines)
        THEN IF current_experience # <<>> THEN experiences \o current_experience
             ELSE experiences
    ELSE IF strip(lines[i]) = <<>>
        THEN experience_loop(lines, i + 1, current_experience, experiences)
    ELSE IF date_search(lines[i])
        THEN experience_loop(lines, i + 1, <<experience_of_line(lines[i])>>,
                             IF current_experience # <<>>
                                 THEN experiences \o current_experience
                                 ELSE experiences)
    ELSE experience_loop(lines, i + 1, current_experience, experiences)

extract_work_experience(t) ==
    LET experience_section == extract_section(t, ExperienceHeaders)
    IN IF experience_section = <<>> THEN <<>>
       ELSE experience_loop(split(experience_section, "\n"), 1, <<>>, <<>>)

\* -------------------------------------------- ResumeParser._extract_skills

\* re.split(r'[,U+2022]', s)
re_split(s) == split_any(s, {",", Bullet})

\* [x.strip() for x in xs if x.strip()]
RECURSIVE strip_nonempty(_)
strip_nonempty(xs) ==
    IF xs = <<>> THEN <<>>
    ELSE IF strip(Head(xs)) # <<>> THEN <<strip(Head(xs))>> \o strip_nonempty(Tail(xs))
    ELSE strip_nonempty(Tail(xs))

\* xs without the repeats of an earlier element
RECURSIVE dedup(_, _)
dedup(xs, seen) ==
    IF xs = <<>> THEN <<>>
    ELSE IF Head(xs) \in seen THEN dedup(Tail(xs), seen)
    ELSE <<Head(xs)>> \o dedup(Tail(xs), seen \cup {Head(xs)})

\* skills_of_section with the skills deduplicated
skills_of_section_dedup(skills_section) ==
    dedup(strip_nonempty(re_split(replace(skills_section, "\n", " "))), {})

skills_of_section(skills_section) ==
    LET skills_text == replace(skills_section, "\n", " ")
    IN strip_nonempty(re_split(skills_text))

extract_skills(t) ==
    LET skills_section == extract_section(t, SkillsHeaders)
    IN IF skills_section = <<>> THEN <<>>
       ELSE skills_of_section(skills_section)

\* ------------------------------------ ResumeParser._extract_certifications

\* _extract_certifications returning None for a missing section
extract_certifications_none(t) ==
    LET cert_section == extract_section(t, CertificationHeaders)
    IN IF cert_section = <<>> THEN NoneStr
       ELSE strip_nonempty(split(cert_section, "\n"))

extract_certifications(t) ==
    LET cert_section == extract_section(t, CertificationHeaders)
    IN IF cert_section = <<>> THEN <<>>
       ELSE strip_nonempty(split(cert_section, "\n"))

\* ------------------------------------------------- ResumeParser.__init__

EmailPattern == "[A-Za-z0-9._%+-]+@[A-Za-z0-9.-]+.[A-Z|a-z]{2,}"
PhonePattern == "(+d{1,3}[s-]?)?(?d{3})?[s.-]?d{3}[s.-]?d{4}"
GithubPrefix == <<"g", "i", "t", "h", "u", "b", ".", "c", "o", "m", "/">>
LinkedinPrefix == <<"l", "i", "n", "k", "e", "d", "i", "n", ".", "c", "o", "m", "/", "i", "n", "/">>

\* the github and linkedin patterns are a literal prefix followed by ([A-Za-z0-9_-]+):
\* the attribute holds the prefix
ResumeParserInit ==
    [email_pattern |-> EmailPattern,
     phone_pattern |-> PhonePattern,
     github_pattern |-> GithubPrefix,
     linkedin_pattern |-> LinkedinPrefix]

\* ------------------------------------- ResumeParser._extract_personal_info

HandleChar == Upper \cup Lower \cup Digit \cup {"_", "-"}

\* re.search(prefix + r'([A-Za-z0-9_-]+)', t): group(1) of the leftmost match, or
\* NoneStr when nothing matches
handle_search(prefix, t) ==
    LET at(i) == /\ StartsAt(t, i, prefix)
                 /\ run_length(t, i + Len(prefix), HandleChar) >= 1
    IN IF \E i \in 1..Len(t) : at(i)
       THEN LET i == CHOOSE p \in 1..Len(t) : at(p) /\ \A q \in 1..(p - 1) : ~at(q)
                s == i + Len(prefix)
            IN SubSeq(t, s, s + run_length(t, s, HandleChar) - 1)
       ELSE NoneStr

\* re.search(self.email_pattern, t) and re.search(self.phone_pattern, t): group(0),
\* or NoneStr without a match. The texts of this model hold no e-mail address
\* and no phone number; what a match would return is left Unmodelled.
Unmodelled == <<"unmodelled">>

\* the e-mail pattern cannot match a text without an "@"
email_search(pattern, t) ==
    IF pattern = EmailPattern /\ \A i \in 1..Len(t) : t[i] # "@"
    THEN NoneStr ELSE Unmodelled

\* \(?\d{3}\)?[\s.-]?\d{3}[\s.-]?\d{4} matches somewhere in t (the prefix group
\* before it is optional): three digits at a, then ")" or not, a separator or
\* not, three digits, a separator or not, four digits
phone_match(t) ==
    LET digits(p, n) == \A k \in 0..(n - 1) : p + k <= Len(t) /\ t[p + k] \in Digit
        is(p, class) == p <= Len(t) /\ t[p] \in class
    IN \E a \in 1..Len(t) : \E x, y, z \in {0, 1} :
          /\ digits(a, 3)
          /\ x = 1 => is(a + 3, {")"})
          /\ y = 1 => is(a + 3 + x, Whitespace \cup {".", "-"})
          /\ digits(a + 3 + x + y, 3)
          /\ z = 1 => is(a + 6 + x + y, Whitespace \cup {".", "-"})
          /\ digits(a + 6 + x + y + z, 4)

phone_search(pattern, t) ==
    IF pattern = PhonePattern /\ ~phone_match(t) THEN NoneStr ELSE Unmodelled

\* `lines[0].strip() if lines else None`: split never returns an empty list
name_of(t) ==
    LET lines == split(t, "\n")
    IN IF Len(lines) > 0 THEN strip(lines[1]) ELSE NoneStr

extract_personal_info(self, t) ==
    [name |-> name_of(t),
     email |-> email_search(self.email_pattern, t),
     phone |-> phone_search(self.phone_pattern, t),
     location |-> NoneStr,
     github |-> handle_search(self.github_pattern, t),
     linkedin |-> handle_search(self.linkedin_pattern, t),
     portfolio |-> NoneStr]

\* ------------------------------------------------------------ input texts

LinePool ==
    { <<>>,
      <<"J", "a", "n", "e", " ", "D", "o", "e">>,
      <<"E", "D", "U", "C", "A", "T", "I", "O", "N">>,
      <<"B", "a", "c", "h", "e", "l", "o", "r", " ", "o", "f", " ", "S", "c", "i", "e", "n", "c", "e", ",", " ", "M", "I", "T">>,
      <<"P", "h", "D">>,
      <<"M", ".", "S", ".", ",", " ", "S", "t", "a", "n", "f", "o", "r", "d", ",", " ", "2", "0", "2", "0">>,
      <<"E", "X", "P", "E", "R", "I", "E", "N", "C", "E">>,
      <<"A", "c", "m", "e", " ", "C", "o", "r", "p", " ", "J", "a", "n", " ", "2", "0", "2", "0">>,
      <<"2", "0", "1", "9", " ", "-", " ", "J", "a", "n", " ", "2", "0", "2", "0">>,
      <<"S", "K", "I", "L", "L", "S">>,
      <<"P", "y", "t", "h", "o", "n", ",", " ", "G", "o", ",", " ", Bullet, " ", "R", "u", "s", "t">> }

RECURSIVE join(_, _)
join(ls, sep) ==
    IF ls = <<>> THEN <<>>
    ELSE IF Len(ls) = 1 THEN ls[1]
    ELSE ls[1] \o <<sep>> \o join(Tail(ls), sep)

LineSeqs == UNION {[1..n -> LinePool] : n \in 0..MaxLines}
Texts == {join(ls, "\n") : ls \in LineSeqs}

\* values of the variables a specification does not use
NoCall == [doc |-> <<>>, status |-> "none", steps |-> <<>>, data |-> <<>>]
ParseIdle == last = NoCall /\ kept = NoCall
NoOutcome == [kind |-> "none", has_text |-> FALSE, text |-> NoneStr]
NoAnalysis == [type |-> "none", keys |-> {}, body |-> <<>>]
AnalyzeIdle ==
    resume = <<>> /\ llm = NoOutcome /\ formatted = NoneStr /\ analysis = NoAnalysis
ExtractIdle == text = <<>> /\ op = "idle" /\ arg = <<>> /\ ret = <<>>

\* None, as the value of a session field or of the uploader
None == <<>>

\* lines 30-36 of the app: the session state as first initialised
SessionInit ==
    [resume_data |-> None, job_matches |-> None, skill_gaps |-> None,
     improvement_tips |-> None, processed |-> FALSE]
NeverWritten ==
    [resume_data |-> 0, job_matches |-> 0, skill_gaps |-> 0, improvement_tips |-> 0,
     processed |-> 0]
NoRun == [n |-> 0, file |-> None, ended |-> "none"]
AppIdle == session = SessionInit /\ written = NeverWritten /\ run = NoRun

\* ------------------------------------------------- extractor calls on a text

SectionAliases == {EducationHeaders, ExperienceHeaders, SkillsHeaders, CertificationHeaders}

InitExtract ==
    /\ text \in Texts
    /\ op = "idle"
    /\ arg = <<>>
    /\ ret = <<>>
    /\ parser = ResumeParserInit
    /\ ParseIdle
    /\ AnalyzeIdle
    /\ AppIdle

CallExtractSection ==
    /\ op = "idle"
    /\ \E hs \in SectionAliases :
        /\ arg' = hs
        /\ ret' = extract_section(text, hs)
    /\ op' = "section"
    /\ UNCHANGED <<text, parser, parseVars, analyzeVars, appVars>>

CallExtractEducation ==
    /\ op = "idle"
    /\ op' = "education"
    /\ ret' = extract_education(text)
    /\ UNCHANGED <<text, arg, parser, parseVars, analyzeVars, appVars>>

CallExtractWorkExperience ==
    /\ op = "idle"
    /\ op' = "work_experience"
    /\ ret' = extract_work_experience(text)
    /\ UNCHANGED <<text, arg, parser, parseVars, analyzeVars, appVars>>

CallExtractSkills ==
    /\ op = "idle"
    /\ op' = "skills"
    /\ ret' = extract_skills(text)
    /\ UNCHANGED <<text, arg, parser, parseVars, analyzeVars, appVars>>

CallExtractCertifications ==
    /\ op = "idle"
    /\ op' = "certifications"
    /\ ret' = extract_certifications(text)
    /\ UNCHANGED <<text, arg, parser, parseVars, analyzeVars, appVars>>

CallExtractPersonalInfo ==
    /\ op = "idle"
    /\ op' = "personal_info"
    /\ ret' = extract_personal_info(parser, text)
    /\ UNCHANGED <<text, arg, parser, parseVars, analyzeVars, appVars>>

NextExtract ==
    \/ CallExtractSection
    \/ CallExtractEducation
    \/ CallExtractWorkExperience
    \/ CallExtractSkills
    \/ CallExtractCertifications
    \/ CallExtractPersonalInfo

SpecExtract == InitExtract /\ [][NextExtract]_vars

\* ----------------------------------------------------- ResumeParser.parse

\* str.lower()
lower_char(c) ==
    IF c \in Upper THEN LowerSeq[CHOOSE k \in 1..26 : UpperSeq[k] = c] ELSE c
lower(s) == [i \in 1..Len(s) |-> lower_char(s[i])]

\* uploaded_file.name.split('.')[-1], the .lower() left out
file_extension_case_kept(name) ==
    LET parts == split(name, ".") IN parts[Len(parts)]

\* uploaded_file.name.split('.')[-1].lower()
file_extension(name) ==
    LET parts == split(name, ".") IN lower(parts[Len(parts)])

\* An uploaded file is its name and its bytes; the bytes are what they decode to:
\* the format they are in and the text of each page (PDF) or paragraph (DOCX).
RECURSIVE concat(_)
concat(xs) == IF xs = <<>> THEN <<>> ELSE Head(xs) \o concat(Tail(xs))

RECURSIVE concat_lines(_)
concat_lines(xs) ==
    IF xs = <<>> THEN <<>> ELSE Head(xs) \o <<"\n">> \o concat_lines(Tail(xs))

\* PdfReader raises on bytes that are no PDF; else the pages' texts, concatenated
extract_text_from_pdf(file) ==
    IF file.format = "pdf" THEN [raised |-> FALSE, text |-> concat(file.parts)]
    ELSE [raised |-> TRUE, text |-> <<>>]

\* docx.Document raises on bytes that are no DOCX; else each paragraph and "\n"
extract_text_from_docx(file) ==
    IF file.format = "docx" THEN [raised |-> FALSE, text |-> concat_lines(file.parts)]
    ELSE [raised |-> TRUE, text |-> <<>>]

ResumeData(personal_info, education, work_experience, skills, certifications, raw_text) ==
    [personal_info |-> personal_info, education |-> education,
     work_experience |-> work_experience, skills |-> skills,
     certifications |-> certifications, raw_text |-> raw_text]

NoData == <<>>
Pdf == <<"p", "d", "f">>
Docx == <<"d", "o", "c", "x">>
Doc == <<"d", "o", "c">>

\* lines 57-74: the five extractors on the decoded text, and the record; a decoder
\* that raised ends the call with its exception
extract_components(self, path, decoded) ==
    IF decoded.raised
    THEN [status |-> "DecodeError", steps |-> <<path>>, data |-> NoData]
    ELSE [status |-> "ok",
          steps |-> <<path, "personal_info", "education", "work_experience",
                      "skills", "certifications">>,
          data |-> ResumeData(extract_personal_info(self, decoded.text),
                              extract_education(decoded.text),
                              extract_work_experience(decoded.text),
                              extract_skills(decoded.text),
                              extract_certifications(decoded.text),
                              decoded.text)]

\* what a parse call comes to: how it ended ("ok", or the exception), the steps
\* it ran, and the ResumeData it returned
parse_outcome(self, uploaded_file) ==
    LET ext == file_extension(uploaded_file.name)
    IN IF ext = Pdf
           THEN extract_components(self, "pdf", extract_text_from_pdf(uploaded_file))
       ELSE IF ext = Docx \/ ext = Doc
           THEN extract_components(self, "docx", extract_text_from_docx(uploaded_file))
       ELSE [status |-> "ValueError", steps |-> <<>>, data |-> NoData]

\* parse that leaves an attribute of the parser overwritten
parse_overwriting_pattern(self, uploaded_file) ==
    [self |-> [self EXCEPT !.github_pattern = self.linkedin_pattern],
     outcome |-> parse_outcome(self, uploaded_file)]

\* parse, with the parser it leaves behind: no statement of it assigns to self
parse(self, uploaded_file) ==
    [self |-> self, outcome |-> parse_outcome(self, uploaded_file)]

\* ---------------------------------------------------------- uploaded files

FileNames ==
    { <<"r", ".", "p", "d", "f">>,
      <<"r", ".", "P", "D", "F">>,
      <<"r", ".", "D", "o", "c", "x">>,
      <<"r", ".", "d", "o", "c">>,
      <<"r", ".", "x", "l", "s", "x">>,
      <<"p", "d", "f">>,
      <<"a", ".", "p", "d", "f", ".", "t", "x", "t">>,
      <<"r", ".">>,
      <<"a", ".", "b", ".", "d", "o", "c", "x">> }

\* the texts of the pages or paragraphs of a document
Contents ==
    { <<>>,
      << <<"J", "a", "n", "e", " ", "D", "o", "e">> >>,
      << <<"J", "a", "n", "e", " ", "D", "o", "e">>,
         <<"g", "i", "t", "h", "u", "b", ".", "c", "o", "m", "/", "j", "d">> >>,
      << <<"J", "a", "n", "e", " ", "D", "o", "e", "\n">>,
         <<"S", "K", "I", "L", "L", "S", "\n", "P", "y", "t", "h", "o", "n", ",", " ", "G", "o", ",", " ", Bullet, " ", "R", "u", "s", "t">> >>,
      << <<"E", "D", "U", "C", "A", "T", "I", "O", "N", "\n", "P", "h", "D", "\n", "M", ".", "S", ".", ",", " ", "S", "t", "a", "n", "f", "o", "r", "d", ",", " ", "2", "0", "2", "0", "\n">>,
         <<"C", "E", "R", "T", "I", "F", "I", "C", "A", "T", "I", "O", "N", "S", "\n", "A", "W", "S", " ", "C", "e", "r", "t", "i", "f", "i", "e", "d">> >>,
      << <<"E", "X", "P", "E", "R", "I", "E", "N", "C", "E", "\n", "A", "c", "m", "e", " ", "C", "o", "r", "p", " ", "J", "a", "n", " ", "2", "0", "2", "0">> >> }

UploadedFile(name, format, parts) == [name |-> name, format |-> format, parts |-> parts]

Uploads ==
    {UploadedFile(n, "pdf", << <<"J", "a", "n", "e", " ", "D", "o", "e">> >>) : n \in FileNames}
    \cup {UploadedFile(<<"r", ".", "p", "d", "f">>, f, c) : f \in {"pdf", "other"}, c \in Contents}
    \cup {UploadedFile(<<"r", ".", "D", "o", "c", "x">>, "docx", c) : c \in Contents}

\* ---------------------------------------- parse calls on one ResumeParser

Call(uploaded_file, outcome) ==
    [doc |-> uploaded_file, status |-> outcome.status,
     steps |-> outcome.steps, data |-> outcome.data]

Init ==
    /\ parser = ResumeParserInit
    /\ last = NoCall
    /\ kept = NoCall
    /\ ExtractIdle
    /\ AnalyzeIdle
    /\ AppIdle

\* resume_parser.parse(uploaded_file)
Parse ==
    \E f \in Uploads :
        LET r == parse(parser, f)
        IN /\ parser' = r.self
           /\ last' = Call(f, r.outcome)
           /\ UNCHANGED <<kept, extractVars, analyzeVars, appVars>>

\* the same, the call being the one remembered for later comparison
ParseAndKeep ==
    /\ kept = NoCall
    /\ \E f \in Uploads :
        LET r == parse(parser, f)
        IN /\ parser' = r.self
           /\ last' = Call(f, r.outcome)
           /\ kept' = Call(f, r.outcome)
           /\ UNCHANGED <<extractVars, analyzeVars, appVars>>

Next ==
    \/ Parse
    \/ ParseAndKeep

Spec == Init /\ [][Next]_vars

\* --------------------------------------- LangflowChain._format_resume_data

PersonalHeader == <<"P", "e", "r", "s", "o", "n", "a", "l", " ", "I", "n", "f", "o", "r", "m", "a", "t", "i", "o", "n", ":">>
EducationHeader == <<"E", "d", "u", "c", "a", "t", "i", "o", "n", ":">>
WorkHeader == <<"W", "o", "r", "k", " ", "E", "x", "p", "e", "r", "i", "e", "n", "c", "e", ":">>
SkillsHeader == <<"S", "k", "i", "l", "l", "s", ":">>
CertificationsHeader == <<"C", "e", "r", "t", "i", "f", "i", "c", "a", "t", "i", "o", "n", "s", ":">>

\* the fields of PersonalInfo in the order .dict() yields them: the field, and its
\* name as a str
PersonalInfoKeys ==
    << <<"name", <<"n", "a", "m", "e">>>>,
       <<"email", <<"e", "m", "a", "i", "l">>>>,
       <<"phone", <<"p", "h", "o", "n", "e">>>>,
       <<"location", <<"l", "o", "c", "a", "t", "i", "o", "n">>>>,
       <<"github", <<"g", "i", "t", "h", "u", "b">>>>,
       <<"linkedin", <<"l", "i", "n", "k", "e", "d", "i", "n">>>>,
       <<"portfolio", <<"p", "o", "r", "t", "f", "o", "l", "i", "o">>>> >>

\* str.title(): a letter after a non-letter in upper case, every other in lower
upper_char(c) ==
    IF c \in Lower THEN UpperSeq[CHOOSE k \in 1..26 : LowerSeq[k] = c] ELSE c
title(s) ==
    [i \in 1..Len(s) |->
        IF i = 1 \/ s[i - 1] \notin (Upper \cup Lower)
        THEN upper_char(s[i]) ELSE lower_char(s[i])]

\* `if value:` for a value that is a str or None
truthy(value) == value # NoneStr /\ value # <<>>

\* the loop over personal_info.items(), from the k-th field on
RECURSIVE personal_lines(_, _)
personal_lines(personal_info, k) ==
    IF k > Len(PersonalInfoKeys) THEN <<>>
    ELSE LET value == personal_info[PersonalInfoKeys[k][1]]
             key == PersonalInfoKeys[k][2]
         IN (IF truthy(value)
             THEN <<"-", " ">> \o title(replace(key, "_", " ")) \o <<":", " ">>
                  \o value \o <<"\n">>
             ELSE <<>>)
            \o personal_lines(personal_info, k + 1)

\* the loop over education: every entry is a dict after .dict()
RECURSIVE education_lines(_)
education_lines(education) ==
    IF education = <<>> THEN <<>>
    ELSE <<"-", " ">> \o Head(education).degree \o <<" ", "a", "t", " ">>
         \o Head(education).institution \o <<"\n">> \o education_lines(Tail(education))

RECURSIVE work_lines(_)
work_lines(work_exp) ==
    IF work_exp = <<>> THEN <<>>
    ELSE <<"-", " ">> \o Head(work_exp).position \o <<" ", "a", "t", " ">>
         \o Head(work_exp).company \o <<"\n">> \o work_lines(Tail(work_exp))

\* the loops over skills and over certifications
RECURSIVE item_lines(_)
item_lines(items) ==
    IF items = <<>> THEN <<>>
    ELSE <<"-", " ">> \o Head(items) \o <<"\n">> \o item_lines(Tail(items))

\* a section whose header is written only when the section has entries
format_section_if_any(header, entries) ==
    IF entries = <<>> THEN <<>> ELSE <<"\n">> \o header \o <<"\n">> \o entries

\* formatted_str += "\n<header>\n", then the entries' lines
format_section(header, entries) == <<"\n">> \o header \o <<"\n">> \o entries

\* resume_data is a ResumeData: .dict() gives the same fields, the nested models
\* as dicts
format_resume_data(resume_data) ==
    PersonalHeader \o <<"\n">> \o personal_lines(resume_data.personal_info, 1)
    \o format_section(EducationHeader, education_lines(resume_data.education))
    \o format_section(WorkHeader, work_lines(resume_data.work_experience))
    \o format_section(SkillsHeader, item_lines(resume_data.skills))
    \o format_section(CertificationsHeader, item_lines(resume_data.certifications))

\* ------------------------------------------------------------- json.loads

\* A response text is a sequence of JSON tokens; whitespace between tokens is
\* left out. The string literals of the model, and the str each stands for:
QuotedStrings == {"\"job_matches\"", "\"skill_gaps\"", "\"improvement_tips\"", "\"title\"", "\"x\""}
Unquote(tok) ==
    CASE tok = "\"job_matches\"" -> "job_matches"
      [] tok = "\"skill_gaps\"" -> "skill_gaps"
      [] tok = "\"improvement_tips\"" -> "improvement_tips"
      [] tok = "\"title\"" -> "title"
      [] OTHER -> "x"
Scalars == QuotedStrings \cup {"85", "null", "true", "false"}

\* value_end(t, i): the position after the JSON value that starts at t[i], or 0
\* when no value starts there
RECURSIVE value_end(_, _)
RECURSIVE array_rest(_, _, _)
RECURSIVE object_rest(_, _, _)
value_end(t, i) ==
    IF i > Len(t) THEN 0
    ELSE IF t[i] \in Scalars THEN i + 1
    ELSE IF t[i] = "[" THEN array_rest(t, i + 1, TRUE)
    ELSE IF t[i] = "{" THEN object_rest(t, i + 1, TRUE)
    ELSE 0

array_rest(t, i, first) ==
    IF i > Len(t) THEN 0
    ELSE IF first /\ t[i] = "]" THEN i + 1
    ELSE LET e == value_end(t, i)
         IN IF e = 0 \/ e > Len(t) THEN 0
            ELSE IF t[e] = "]" THEN e + 1
            ELSE IF t[e] = "," THEN array_rest(t, e + 1, FALSE)
            ELSE 0

object_rest(t, i, first) ==
    IF i > Len(t) THEN 0
    ELSE IF first /\ t[i] = "}" THEN i + 1
    ELSE IF t[i] \notin QuotedStrings \/ i + 1 > Len(t) \/ t[i + 1] # ":" THEN 0
    ELSE LET e == value_end(t, i + 2)
         IN IF e = 0 \/ e > Len(t) THEN 0
            ELSE IF t[e] = "}" THEN e + 1
            ELSE IF t[e] = "," THEN object_rest(t, e + 1, FALSE)
            ELSE 0

\* the nesting depth of position i of a token sequence
depth(t, i) ==
    Cardinality({j \in 1..(i - 1) : t[j] \in {"{", "["}})
    - Cardinality({j \in 1..(i - 1) : t[j] \in {"}", "]"}})

\* The Python value of a JSON text: its type, the keys it has when it is a dict,
\* and the text it was read from.
json_value(t) ==
    [type |-> IF t[1] = "{" THEN "dict"
              ELSE IF t[1] = "[" THEN "list"
              ELSE IF t[1] \in QuotedStrings THEN "str"
              ELSE IF t[1] = "null" THEN "NoneType"
              ELSE IF t[1] = "85" THEN "int"
              ELSE "bool",
     keys |-> IF t[1] = "{"
              THEN {Unquote(t[i]) : i \in {j \in 1..(Len(t) - 1) :
                        t[j] \in QuotedStrings /\ t[j + 1] = ":" /\ depth(t, j) = 1}}
              ELSE {},
     body |-> t]

\* json.loads(response_text): the value, or the exception raised (TypeError for
\* a response_text that is None)
json_loads(response_text) ==
    IF response_text = NoneStr THEN [exc |-> "TypeError", value |-> <<>>]
    ELSE IF value_end(response_text, 1) = Len(response_text) + 1
        THEN [exc |-> "none", value |-> json_value(response_text)]
    ELSE [exc |-> "JSONDecodeError", value |-> <<>>]

\* --------------------------------------- LangflowChain._create_mock_response

\* the fixed payload: a dict with the three keys; its body is named, not spelled
create_mock_response ==
    [type |-> "dict",
     keys |-> {"job_matches", "skill_gaps", "improvement_tips"},
     body |-> <<"_create_mock_response">>]

\* ----------------------------------------- LangflowChain.analyze_resume

\* self.chain.invoke(...) either raises or returns a dict, with or without the
\* key "text"; the text is a str or None
response_text_of(outcome) ==
    IF outcome.has_text THEN outcome.text ELSE <<"{", "}">>

\* what analyze_resume returns when the chain call ended with `outcome`
analyze_resume(resume_data, outcome) ==
    IF outcome.kind = "raise" THEN create_mock_response
    ELSE LET loaded == json_loads(response_text_of(outcome))
         IN IF loaded.exc = "none" THEN loaded.value
            ELSE create_mock_response

\* --------------------------------------------- analysis of a parsed resume

\* the longest document handed to the chain, in blocks of lines
MaxBlocks == 2

Blocks ==
    { <<"J", "a", "n", "e", " ", "D", "o", "e">>,
      <<"E", "D", "U", "C", "A", "T", "I", "O", "N", "\n", "P", "h", "D", "\n", "M", ".", "S", ".", ",", " ", "S", "t", "a", "n", "f", "o", "r", "d", ",", " ", "2", "0", "2", "0", "\n", "-">>,
      <<"S", "K", "I", "L", "L", "S", "\n", "P", "y", "t", "h", "o", "n", ",", " ", "G", "o", ",", " ", Bullet, " ", "R", "u", "s", "t", "\n", "-">>,
      <<"C", "E", "R", "T", "I", "F", "I", "C", "A", "T", "I", "O", "N", "S", "\n", "A", "W", "S", " ", "C", "e", "r", "t", "i", "f", "i", "e", "d", "\n", "-">>,
      <<"E", "X", "P", "E", "R", "I", "E", "N", "C", "E", "\n", "A", "c", "m", "e", " ", "C", "o", "r", "p", " ", "J", "a", "n", " ", "2", "0", "2", "0", "\n", "-">> }

\* DOCX uploads whose paragraphs are blocks
AnalyzeUploads ==
    {UploadedFile(<<"r", ".", "d", "o", "c", "x">>, "docx", ps) :
        ps \in UNION {[1..n -> Blocks] : n \in 0..MaxBlocks}}

ResponseTexts ==
    { <<"{", "\"job_matches\"", ":", "[", "]", ",", "\"skill_gaps\"", ":", "[", "]", ",",
        "\"improvement_tips\"", ":", "[", "\"x\"", "]", "}">>,
      <<"{", "\"job_matches\"", ":", "[", "{", "\"title\"", ":", "\"x\"", "}", "]", "}">>,
      <<"{", "}">>,
      <<"[", "]">>,
      <<"85">>,
      <<"null">>,
      <<>>,
      <<"Sure", "{", "}">>,
      <<"{", "\"job_matches\"", ":", "[", "]", ",", "}">>,
      <<"{", "\"job_matches\"", ":", "[", "//", "]", "}">>,
      <<"{", "\"job_matches\"", ":", "null", ",", "\"skill_gaps\"", ":", "[", "]", "}">> }

LlmOutcomes ==
    {[kind |-> "raise", has_text |-> FALSE, text |-> NoneStr],
     [kind |-> "result", has_text |-> FALSE, text |-> NoneStr],
     [kind |-> "result", has_text |-> TRUE, text |-> NoneStr]}
    \cup {[kind |-> "result", has_text |-> TRUE, text |-> t] : t \in ResponseTexts}

\* the resume is one that parse returned
InitAnalyze ==
    /\ parser = ResumeParserInit
    /\ \E f \in AnalyzeUploads : resume = parse(parser, f).outcome.data
    /\ llm = NoOutcome
    /\ formatted = NoneStr
    /\ analysis = NoAnalysis
    /\ ExtractIdle
    /\ ParseIdle
    /\ AppIdle

\* langflow_chain.analyze_resume(resume_data), the chain call ending one way
AnalyzeResume ==
    /\ llm = NoOutcome
    /\ \E outcome \in LlmOutcomes :
        /\ llm' = outcome
        /\ analysis' = analyze_resume(resume, outcome)
    /\ formatted' = format_resume_data(resume)
    /\ UNCHANGED <<resume, parser, extractVars, parseVars, appVars>>

NextAnalyze ==
    \/ AnalyzeResume

SpecAnalyze == InitAnalyze /\ [][NextAnalyze]_vars

\* -------------------------------------------------------------- app: main()

\* the most runs of main in one session
MaxRuns == 3

\* what st.file_uploader(type=["pdf", "docx"]) can hand over: a PDF, bytes with a
\* .pdf name that are no PDF, and a DOCX
AppUploads ==
    { UploadedFile(<<"r", ".", "p", "d", "f">>, "pdf", << <<"J", "a", "n", "e", " ", "D", "o", "e">> >>),
      UploadedFile(<<"r", ".", "p", "d", "f">>, "other", <<>>),
      UploadedFile(<<"r", ".", "d", "o", "c", "x">>, "docx",
                   << <<"S", "K", "I", "L", "L", "S", "\n", "P", "y", "t", "h", "o", "n", ",", " ", "G", "o", ",", " ", Bullet, " ", "R", "u", "s", "t">> >>) }

EmptyList == <<"[", "]">>

\* the value a dict read from the JSON text t holds under key: the tokens of the
\* value, None for null; the last of repeated keys counts
value_at(t, key) ==
    LET js == {j \in 1..(Len(t) - 1) :
                  /\ t[j] \in QuotedStrings
                  /\ Unquote(t[j]) = key
                  /\ t[j + 1] = ":"
                  /\ depth(t, j) = 1}
        j == CHOOSE k \in js : \A l \in js : l <= k
        v == SubSeq(t, j + 2, value_end(t, j + 2) - 1)
    IN IF v = <<"null">> THEN None ELSE v

\* analysis_results.get(key, []) on a dict
get(analysis_results, key) ==
    IF key \notin analysis_results.keys THEN EmptyList
    ELSE IF analysis_results = create_mock_response THEN <<"_create_mock_response", key>>
    ELSE value_at(analysis_results.body, key)

\* LangflowChain() and JobMatcher().find_matches(analysis_results) return or raise
CallEnds == {"return", "raise"}

\* JobMatcher.find_matches: its result is not used by main; it returns or raises
find_matches(analysis_results, ends) == ends

\* One run of main, the n-th, on session state st: the state it leaves, the
\* fields it set, and how it ended. A raise ends the run where it happens, with
\* the assignments made before it in place.
main(st, n, uploaded_file, clicked, chain_ends, outcome, matcher_ends) ==
    IF uploaded_file = None \/ ~clicked
    THEN [session |-> st.session, written |-> st.written, ended |-> "no_click"]
    ELSE LET parsed == parse(ResumeParserInit, uploaded_file).outcome
             s1 == [st.session EXCEPT !.resume_data = parsed.data]
             w1 == [st.written EXCEPT !.resume_data = n]
             analysis_results == analyze_resume(parsed.data, outcome)
         IN IF parsed.status # "ok"
                THEN [session |-> st.session, written |-> st.written, ended |-> "parse_raised"]
            ELSE IF chain_ends = "raise"
                THEN [session |-> s1, written |-> w1, ended |-> "chain_raised"]
            ELSE IF find_matches(analysis_results, matcher_ends) = "raise"
                THEN [session |-> s1, written |-> w1, ended |-> "find_matches_raised"]
            ELSE IF analysis_results.type # "dict"
                THEN [session |-> s1, written |-> w1, ended |-> "get_raised"]
            ELSE [session |-> [s1 EXCEPT !.job_matches = get(analysis_results, "job_matches"),
                                         !.skill_gaps = get(analysis_results, "skill_gaps"),
                                         !.improvement_tips = get(analysis_results, "improvement_tips"),
                                         !.processed = TRUE],
                  written |-> [w1 EXCEPT !.job_matches = n, !.skill_gaps = n,
                                         !.improvement_tips = n, !.processed = n],
                  ended |-> "completed"]

InitApp ==
    /\ session = SessionInit
    /\ written = NeverWritten
    /\ run = NoRun
    /\ parser = ResumeParserInit
    /\ ExtractIdle
    /\ ParseIdle
    /\ AnalyzeIdle

\* a run of the script with a file uploaded and "Analyze Resume" clicked
AnalyzeResumeClick ==
    /\ run.n < MaxRuns
    /\ \E f \in AppUploads, chain_ends \in CallEnds, outcome \in LlmOutcomes, matcher_ends \in CallEnds :
        LET r == main([session |-> session, written |-> written], run.n + 1, f, TRUE,
                      chain_ends, outcome, matcher_ends)
        IN /\ session' = r.session
           /\ written' = r.written
           /\ run' = [n |-> run.n + 1, file |-> f, ended |-> r.ended]
    /\ UNCHANGED <<parser, extractVars, parseVars, analyzeVars>>

\* a run of the script without the click: nothing uploaded yet, or a widget changed
Rerun ==
    /\ run.n < MaxRuns
    /\ \E f \in AppUploads \cup {None} :
        LET r == main([session |-> session, written |-> written], run.n + 1, f, FALSE,
                      "return", NoOutcome, "return")
        IN /\ session' = r.session
           /\ written' = r.written
           /\ run' = [n |-> run.n + 1, file |-> f, ended |-> r.ended]
    /\ UNCHANGED <<parser, extractVars, parseVars, analyzeVars>>

NextApp ==
    \/ AnalyzeResumeClick
    \/ Rerun

SpecApp == InitApp /\ [][NextApp]_vars

\* ------------------------------------------------------------------ claims

\* the lines of a text, and the positions of those that contain an alias
LinesOf(t) == split(t, "\n")
AliasLines(t, hs) == {i \in 1..Len(LinesOf(t)) : AnyIn(hs, LinesOf(t)[i])}

\* The body the section segmenter is specified to return: the lines after the
\* first alias line, up to the first later all-caps line or the end of text.
SectionBody(t, hs) ==
    IF AliasLines(t, hs) = {} THEN <<>>
    ELSE LET lines == LinesOf(t)
             h == Least(AliasLines(t, hs))
             caps == {i \in (h + 1)..Len(lines) : isupper(lines[i])}
             e == IF caps = {} THEN Len(lines) + 1 ELSE Least(caps)
         IN strip(join(SubSeq(lines, h + 1, e - 1), "\n"))

\* C1: _extract_section returns the lines after the first alias line up to, not
\* including, the first later all-caps line (or the end of text), joined by
\* newlines and trimmed, and the empty string when no line holds an alias; the
\* line right before the all-caps heading is part of the body.
C1_SectionIsBodyUpToHeading ==
    op = "section" => ret = SectionBody(text, arg)

\* the text before the first comma of a line, and the text between its first and
\* second comma (to the end of the line when there is no second), both trimmed
Commas(line) == {i \in 1..Len(line) : line[i] = ","}
BeforeFirstComma(line) ==
    IF Commas(line) = {} THEN strip(line)
    ELSE strip(SubSeq(line, 1, Least(Commas(line)) - 1))
AfterFirstComma(line) ==
    IF Commas(line) = {} THEN <<>>
    ELSE LET c1 == Least(Commas(line))
             rest == {i \in Commas(line) : i > c1}
             c2 == IF rest = {} THEN Len(line) + 1 ELSE Least(rest)
         IN strip(SubSeq(line, c1 + 1, c2 - 1))

\* a text of three lines: an education alias, a line "<degree>, <institution>"
\* with a degree keyword and one comma, and an all-caps line
IsEducationExample(t) ==
    LET lines == LinesOf(t)
    IN /\ Len(lines) = 3
       /\ \E k \in 1..Len(EducationHeaders) : lines[1] = EducationHeaders[k]
       /\ AnyIn(DegreeKeywords, lines[2])
       /\ Cardinality(Commas(lines[2])) = 1
       /\ isupper(lines[3])

\* C2: on "EDUCATION" / "Bachelor of Science, MIT" / "EXPERIENCE" and texts of that
\* shape, _extract_education returns exactly one record, with the degree the text
\* before the comma and the institution the text after it.
C2_EducationExampleOneRecord ==
    (op = "education" /\ IsEducationExample(text)) =>
        LET line == LinesOf(text)[2]
        IN ret = <<Education(AfterFirstComma(line), BeforeFirstComma(line))>>

\* C5: on a text with a non-blank line, PersonalInfo.name is the first non-blank
\* line, trimmed, also when blank lines come first.
NonBlankLines(t) == {i \in 1..Len(LinesOf(t)) : strip(LinesOf(t)[i]) # <<>>}
C5_NameIsFirstNonBlankLine ==
    (op = "personal_info" /\ NonBlankLines(text) # {}) =>
        ret.name = strip(LinesOf(text)[Least(NonBlankLines(text))])

\* the numbers of a finite set, in increasing order
RECURSIVE Sorted(_)
Sorted(S) == IF S = {} THEN <<>> ELSE <<Least(S)>> \o Sorted(S \ {Least(S)})

NonEmpty(x) == x # <<>>

\* The tokens of a skills body: newlines read as spaces, the text cut at every
\* comma and bullet, each piece trimmed, the empty pieces left out.
SkillTokens(body) ==
    LET s == [i \in 1..Len(body) |-> IF body[i] = "\n" THEN " " ELSE body[i]]
        seps == {i \in 1..Len(s) : s[i] = "," \/ s[i] = Bullet}
        starts == Sorted({0} \cup seps)
        end(a) == Least({c \in seps \cup {Len(s) + 1} : c > a})
        pieces == [k \in 1..Len(starts) |->
                      strip(SubSeq(s, starts[k] + 1, end(starts[k]) - 1))]
    IN SelectSeq(pieces, NonEmpty)

\* C7: skills extraction returns, in order of appearance, exactly the trimmed
\* non-empty tokens of the skills section body; duplicates stay and no token is
\* case-normalised.
C7_SkillsAreTheTokensInOrder ==
    op = "skills" => ret = SkillTokens(extract_section(text, SkillsHeaders))

\* a skills call that returned a repeated token and a token with a capital
C7_Witness ==
    /\ op = "skills"
    /\ \E i, j \in 1..Len(ret) : i < j /\ ret[i] = ret[j]
    /\ \E i \in 1..Len(ret) : ret[i][1] \in Upper

HasDegreeKeyword(line) == strip(line) # <<>> /\ AnyIn(DegreeKeywords, line)

\* one record per keyword line of an education body, in line order
ExpectedEducation(body) ==
    LET ls == SelectSeq(split(body, "\n"), HasDegreeKeyword)
    IN [k \in 1..Len(ls) |-> Education(AfterFirstComma(ls[k]), BeforeFirstComma(ls[k]))]

\* C10: on a non-empty education body _extract_education returns one record per
\* non-blank line with a degree keyword, in line order, the last one included;
\* degree is the trimmed text before the first comma, institution the trimmed
\* text between the first and the second comma, or empty without a comma.
C10_OneRecordPerKeywordLine ==
    (op = "education" /\ extract_section(text, EducationHeaders) # <<>>) =>
        ret = ExpectedEducation(extract_section(text, EducationHeaders))

\* an education call that returned two records, one of them without institution
C10_Witness ==
    /\ op = "education"
    /\ Len(ret) = 2
    /\ \E k \in 1..2 : ret[k].institution = <<>>
    /\ \E k \in 1..2 : ret[k].institution # <<>>

\* a non-blank line with a month name followed by a four-digit year
IsMarkerLine(line) == strip(line) # <<>> /\ date_search(line)

\* the trimmed first run of characters of class in line, or the placeholder when
\* the line holds no such character
TrimmedFirstRun(line, class, placeholder) ==
    IF \E i \in 1..Len(line) : line[i] \in class
    THEN strip(first_run(line, class))
    ELSE placeholder

\* one record per marker line of an experience body, in line order
ExpectedExperience(body) ==
    LET ls == SelectSeq(split(body, "\n"), IsMarkerLine)
    IN [k \in 1..Len(ls) |->
          WorkExperience(
              TrimmedFirstRun(ls[k], Upper \cup Lower \cup Digit \cup Whitespace, UnknownCompany),
              TrimmedFirstRun(ls[k], Upper \cup Lower \cup Whitespace, UnknownPosition))]

\* C11: on a non-empty experience body _extract_work_experience returns one
\* record per non-blank marker line, in line order; company is the trimmed first
\* run of letters, digits and whitespace, position the trimmed first run of
\* letters and whitespace, each with its "Unknown" placeholder when there is no
\* such run, so that no record has an empty company or an empty position.
C11_OneRecordPerMarkerLineNoneEmpty ==
    (op = "work_experience" /\ extract_section(text, ExperienceHeaders) # <<>>) =>
        /\ ret = ExpectedExperience(extract_section(text, ExperienceHeaders))
        /\ \A k \in 1..Len(ret) : ret[k].company # <<>> /\ ret[k].position # <<>>

\* the part of a file name after its last dot (all of it when it has no dot), in
\* lower case
Suffix(name) ==
    LET dots == {i \in 1..Len(name) : name[i] = "."}
        from == IF dots = {} THEN 1 ELSE 1 + CHOOSE i \in dots : \A j \in dots : j <= i
    IN lower(SubSeq(name, from, Len(name)))

\* C3: parse picks the decode path from the lower-cased suffix of the file name
\* alone: "pdf" the PDF path, "docx" and "doc" the Word path; any other suffix
\* ends the call with the unsupported-format error before any decoder or
\* extractor ran, and no ResumeData is returned.
C3_PathBySuffixElseUnsupported ==
    last.status # "none" =>
        LET suffix == Suffix(last.doc.name)
        IN IF suffix = Pdf
               THEN last.status # "ValueError" /\ last.steps # <<>> /\ last.steps[1] = "pdf"
           ELSE IF suffix \in {Docx, Doc}
               THEN last.status # "ValueError" /\ last.steps # <<>> /\ last.steps[1] = "docx"
           ELSE last.status = "ValueError" /\ last.steps = <<>> /\ last.data = NoData

\* an upper-case suffix took the PDF path after a call on "r.xlsx" was refused
C3_Witness ==
    /\ kept.status = "ValueError"
    /\ kept.doc.name = <<"r", ".", "x", "l", "s", "x">>
    /\ last.doc.name = <<"r", ".", "P", "D", "F">>
    /\ last.status = "ok"

\* what the decoder of a supported document yields
DecodedText(f) == IF f.format = "pdf" THEN concat(f.parts) ELSE concat_lines(f.parts)

ListFields ==
    { <<"education", EducationHeaders>>, <<"work_experience", ExperienceHeaders>>,
      <<"skills", SkillsHeaders>>, <<"certifications", CertificationHeaders>> }

\* C6: an extractor whose section has no alias line in the text returns the empty
\* list; every ResumeData parse returns has its six fields, the four lists among
\* them, and raw_text is the decoded text.
C6_MissingSectionGivesEmptyList ==
    last.status = "ok" =>
        /\ DOMAIN last.data = {"personal_info", "education", "work_experience",
                               "skills", "certifications", "raw_text"}
        /\ last.data.raw_text = DecodedText(last.doc)
        /\ \A fh \in ListFields :
              /\ DOMAIN last.data[fh[1]] = 1..Len(last.data[fh[1]])
              /\ AliasLines(last.data.raw_text, fh[2]) = {} => last.data[fh[1]] = <<>>

\* a record with skills, and with no certifications for want of a section
C6_Witness ==
    /\ last.status = "ok"
    /\ last.data.skills # <<>>
    /\ AliasLines(last.data.raw_text, CertificationHeaders) = {}
    /\ last.data.certifications = <<>>

\* two uploads are the same document to parse: same suffix, same bytes
SameDocument(f, g) ==
    /\ Suffix(f.name) = Suffix(g.name)
    /\ f.format = g.format
    /\ f.parts = g.parts

\* C9: whatever calls came before and between, a parse call on a document ends
\* as the remembered call on the same document did, with the same field values,
\* and no call changes the parser's attributes.
C9_ParseIsHistoryIndependent ==
    /\ parser = ResumeParserInit
    /\ (kept.status # "none" /\ last.status # "none" /\ SameDocument(kept.doc, last.doc)) =>
          /\ last.status = kept.status
          /\ last.status = "ok" => last.data = kept.data

\* the remembered document parsed again under another name, a failed call and
\* other documents possibly in between
C9_Witness ==
    /\ kept.status = "ok"
    /\ last.status = "ok"
    /\ kept.doc.name # last.doc.name
    /\ SameDocument(kept.doc, last.doc)
    /\ last.data.personal_info.name # <<>>

ThreeKeys == {"job_matches", "skill_gaps", "improvement_tips"}

\* C4: however the language-model call ends, analyze_resume returns a mapping
\* with the keys job_matches, skill_gaps and improvement_tips, and the fallback
\* payload whenever the response text is not valid JSON.
C4_AnalysisHasTheThreeKeys ==
    llm.kind # "none" =>
        /\ analysis.type = "dict"
        /\ ThreeKeys \subseteq analysis.keys
        /\ (llm.kind = "result" /\ json_loads(response_text_of(llm)).exc # "none")
               => analysis = create_mock_response

FormatHeaders ==
    <<PersonalHeader, EducationHeader, WorkHeader, SkillsHeader, CertificationsHeader>>

\* the values of the personal-info fields that are set, in field order
PersonalValues(personal_info) ==
    SelectSeq([k \in 1..Len(PersonalInfoKeys) |-> personal_info[PersonalInfoKeys[k][1]]],
              truthy)

\* C8: the formatted text has the five headers, each on one line of its own and
\* once, in the fixed order, also for a category without entries; under each
\* header stand the entries of its category and no others, one "- " line each,
\* in the order of the record.
C8_FiveHeadersItemsUnderOwn ==
    formatted # NoneStr =>
        LET lines == split(formatted, "\n")
            P(h) == {i \in 1..Len(lines) : lines[i] = h}
            at(k) == IF k = 6 THEN Len(lines) + 1 ELSE CHOOSE i \in P(FormatHeaders[k]) : TRUE
            under(k) == SelectSeq(SubSeq(lines, at(k) + 1, at(k + 1) - 1), NonEmpty)
        IN /\ \A k \in 1..5 : Cardinality(P(FormatHeaders[k])) = 1
           /\ at(1) = 1
           /\ \A k \in 1..4 : at(k) < at(k + 1)
           /\ \A k \in 1..5 : \A j \in 1..Len(under(k)) : StartsAt(under(k)[j], 1, <<"-", " ">>)
           /\ Len(under(1)) = Len(PersonalValues(resume.personal_info))
           /\ \A j \in 1..Len(under(1)) :
                 Contains(PersonalValues(resume.personal_info)[j], under(1)[j])
           /\ Len(under(2)) = Len(resume.education)
           /\ \A j \in 1..Len(under(2)) :
                 /\ Contains(resume.education[j].degree, under(2)[j])
                 /\ Contains(resume.education[j].institution, under(2)[j])
           /\ Len(under(3)) = Len(resume.work_experience)
           /\ \A j \in 1..Len(under(3)) :
                 /\ Contains(resume.work_experience[j].position, under(3)[j])
                 /\ Contains(resume.work_experience[j].company, under(3)[j])
           /\ under(4) = [j \in 1..Len(resume.skills) |-> <<"-", " ">> \o resume.skills[j]]
           /\ under(5) = [j \in 1..Len(resume.certifications) |->
                              <<"-", " ">> \o resume.certifications[j]]

\* a formatted record with skills and certifications and no education
C8_Witness ==
    /\ formatted # NoneStr
    /\ Len(resume.skills) >= 2
    /\ resume.certifications # <<>>
    /\ resume.education = <<>>

\* the stored results are there and were stored by the run that stored resume_data
ResultsMatchResume ==
    /\ session.job_matches # None
    /\ session.skill_gaps # None
    /\ session.improvement_tips # None
    /\ written.job_matches = written.resume_data
    /\ written.skill_gaps = written.resume_data
    /\ written.improvement_tips = written.resume_data

\* C12: after any sequence of "Analyze Resume" runs, completed or aborted by an
\* exception, whenever session_state.processed is true the stored job_matches,
\* skill_gaps and improvement_tips are not None and come from the run, and so
\* the document, that stored resume_data; and a run that was aborted leaves the
\* five session fields as they were.
C12_ResultsMatchResumeAbortKeepsSession ==
    [][/\ session'.processed => ResultsMatchResume'
       /\ run'.ended # "completed" => session' = session]_vars

====
